---------------------------- MODULE Spec2Model ----------------------------
(***************************************************************************)
(* A model of src/api.py: the /translate request handler, the helpers it   *)
(* calls (clean_output, save_to_file, generate_audio, extraction) and     *)
(* the uploads directory they share.                                       *)
(*                                                                         *)
(* Python strings are modelled as sequences of one-character strings, so   *)
(* that strip, lower, title, the two regular-expression substitutions of   *)
(* clean_output and the path arithmetic are computed, not assumed.         *)
(***************************************************************************)
EXTENDS Integers, Sequences, FiniteSets, TLC

VARIABLES
    \* ---- the pure-function harness of clean_output
    cpc, cx, cy, cz,
    \* ---- the server
    platform,      \* os.name of the process: "posix" or "nt"
    files,         \* the file system: location -> content
    pc,            \* per request: the handler's position
    req,           \* per request: the multipart request as received
    target_lang,   \* translate(): target_lang
    file_path,     \* translate(): file_path
    extracted,     \* translate(): extracted_text
    translated,    \* translate(): translated
    fd,            \* save_to_file(): the location of the file it holds open
    output_path,   \* translate(): output_path
    audio,         \* translate(): audio_filename (None, or characters)
    status, body,  \* the response
    \* ---- history variables (observations, read by no guard)
    wrote,         \* per request: the locations it created or overwrote
    events,        \* per request: the service calls it made and the exceptions raised
    tts_text,      \* per request: the text handed to edge_tts.Communicate
    text_log       \* the requests that wrote a text artifact, per location, in order

cvars == <<cpc, cx, cy, cz>>
svars == <<platform, files, pc, req, target_lang, file_path, extracted,
           translated, fd, output_path, audio, status, body,
           wrote, events, tts_text, text_log>>
vars == <<cvars, svars>>

-----------------------------------------------------------------------------
(* Characters and the str methods the code uses.                           *)

NL == "\n"
TAB == "\t"
SP == " "

Lowercase == <<"a","b","c","d","e","f","g","h","i","j","k","l","m",
               "n","o","p","q","r","s","t","u","v","w","x","y","z">>
Uppercase == <<"A","B","C","D","E","F","G","H","I","J","K","L","M",
               "N","O","P","Q","R","S","T","U","V","W","X","Y","Z">>
Digits == {"0","1","2","3","4","5","6","7","8","9"}

Range(s) == {s[i] : i \in DOMAIN s}
IsLower(c) == c \in Range(Lowercase)
IsUpper(c) == c \in Range(Uppercase)
IsLetter(c) == IsLower(c) \/ IsUpper(c)
\* str.isspace over the characters of the model
IsSpace(c) == c \in {NL, TAB, SP}

LowerChar(c) ==
    IF IsUpper(c) THEN Lowercase[CHOOSE i \in 1..26 : Uppercase[i] = c] ELSE c
UpperChar(c) ==
    IF IsLower(c) THEN Uppercase[CHOOSE i \in 1..26 : Lowercase[i] = c] ELSE c

\* The subsequence of s at the indices satisfying Keep (in order).
Pick(s, Keep(_)) ==
    LET idx == SelectSeq([i \in 1..Len(s) |-> i], Keep)
    IN  [k \in 1..Len(idx) |-> s[idx[k]]]

\* str.strip(chars) / str.strip()
StripChars(s, chars) ==
    IF \A i \in 1..Len(s) : s[i] \in chars THEN <<>>
    ELSE LET lo == CHOOSE i \in 1..Len(s) :
                      s[i] \notin chars /\ \A j \in 1..(i-1) : s[j] \in chars
             hi == CHOOSE i \in 1..Len(s) :
                      s[i] \notin chars /\ \A j \in (i+1)..Len(s) : s[j] \in chars
         IN  SubSeq(s, lo, hi)
strip(s) == StripChars(s, {NL, TAB, SP})

\* str.lower()
lower(s) == [i \in 1..Len(s) |-> LowerChar(s[i])]

\* str.title(): a letter that follows a non-letter (or starts the string) is
\* upper-cased, every other letter is lower-cased.
title(s) ==
    [i \in 1..Len(s) |->
        IF ~IsLetter(s[i]) THEN s[i]
        ELSE IF i = 1 \/ ~IsLetter(s[i-1]) THEN UpperChar(s[i])
        ELSE LowerChar(s[i])]

-----------------------------------------------------------------------------
(* clean_output, src/api.py 71-74.                                         *)

\* re.sub(r"\n{2,}", "\n\n", text): of every maximal run of newlines the
\* first two are kept (a run of one is not matched and stays).
sub_newlines(text) ==
    Pick(text, LAMBDA i : ~(text[i] = NL /\ i > 2
                            /\ text[i-1] = NL /\ text[i-2] = NL))

IsBlank(c) == c \in {SP, TAB}

\* a mutant: the blanks pattern without the tab
sub_blanks_space_only(text) ==
    Pick(text, LAMBDA i : ~(text[i] = SP /\ i > 1 /\ text[i-1] = SP))

\* re.sub(r"[ \t]+", " ", text): every maximal run of spaces/tabs becomes
\* one space.
sub_blanks(text) ==
    LET kept == Pick([i \in 1..Len(text) |-> i],
                     LAMBDA i : ~(IsBlank(text[i]) /\ i > 1 /\ IsBlank(text[i-1])))
    IN  [k \in 1..Len(kept) |->
            IF IsBlank(text[kept[k]]) THEN SP ELSE text[kept[k]]]

\* a mutant: whitespace runs are deleted instead of collapsed
clean_output_delete_blanks(text) ==
    strip(Pick(sub_newlines(text), LAMBDA i : ~IsBlank(sub_newlines(text)[i])))

clean_output(text) == strip(sub_blanks(sub_newlines(text)))

-----------------------------------------------------------------------------
(* The harness of clean_output: every string over Alphabet of length at    *)
(* most MaxLen is cleaned once, and the result cleaned again.              *)

MaxLen == 6
Alphabet == {NL, SP, TAB, "a"}
Strings == UNION {[1..n -> Alphabet] : n \in 0..MaxLen}

-----------------------------------------------------------------------------
(* Paths.  A path is a string; the operating system resolves it component  *)
(* by component.  A location is the directory a file lies in (the names    *)
(* leading to it from the working directory) and its name there.           *)

SLASH == "/"
BACKSLASH == "\\"
DOT == <<".">>
DOTDOT == <<".", ".">>
\* the failure of open(): no file has the empty name
OSError == [dir |-> <<>>, name |-> <<>>]

\* UPLOAD_FOLDER = "uploads", src/api.py 19
UPLOAD_FOLDER == <<"u","p","l","o","a","d","s">>

\* os.sep and os.altsep of the platform
PathSeps(os) == IF os = "nt" THEN {BACKSLASH, SLASH} ELSE {SLASH}
OsSep(os) == IF os = "nt" THEN BACKSLASH ELSE SLASH

\* os.path.join(a, b), for a relative directory a without trailing separator
path_join(os, a, b) ==
    IF b # <<>> /\ b[1] \in PathSeps(os) THEN b ELSE a \o <<OsSep(os)>> \o b

RECURSIVE Split(_, _)
Split(s, seps) ==
    LET cut == {i \in 1..Len(s) : s[i] \in seps}
    IN  IF cut = {} THEN <<s>>
        ELSE LET i == CHOOSE k \in cut : \A j \in cut : k <= j
             IN  <<SubSeq(s, 1, i - 1)>> \o Split(SubSeq(s, i + 1, Len(s)), seps)

\* os.path.basename(p)
basename(os, p) == LET c == Split(p, PathSeps(os)) IN c[Len(c)]

\* ".." applied to a directory
Parent(dir) ==
    IF dir # <<>> /\ dir[Len(dir)] # DOTDOT
    THEN SubSeq(dir, 1, Len(dir) - 1)
    ELSE Append(dir, DOTDOT)

\* Windows collapses "." and ".." in the text of a path before any lookup.
RECURSIVE Normalize(_, _)
Normalize(comps, acc) ==
    IF comps = <<>> THEN acc
    ELSE LET c == Head(comps)
         IN  Normalize(Tail(comps),
                 IF c \in {<<>>, DOT} THEN acc
                 ELSE IF c = DOTDOT THEN Parent(acc)
                 ELSE Append(acc, c))

\* The directories that exist: the working directory, its ancestors, and
\* uploads (os.makedirs, src/api.py 20).  Nothing in the program creates a
\* directory inside uploads.
RECURSIVE Walk(_, _)
Walk(comps, dir) ==
    IF comps = <<>> THEN OSError
    ELSE LET c == Head(comps)
         IN  IF Len(comps) = 1
             THEN IF c \in {<<>>, DOT, DOTDOT} \/ (dir = <<>> /\ c = UPLOAD_FOLDER)
                  THEN OSError                       \* IsADirectoryError
                  ELSE [dir |-> dir, name |-> c]
             ELSE IF c \in {<<>>, DOT} THEN Walk(Tail(comps), dir)
             ELSE IF c = DOTDOT THEN Walk(Tail(comps), Parent(dir))
             ELSE IF dir = <<>> /\ c = UPLOAD_FOLDER
                  THEN Walk(Tail(comps), <<UPLOAD_FOLDER>>)
             ELSE OSError                            \* FileNotFoundError

\* The location open(path, "w") creates or truncates, or OSError.
Resolve(os, path) ==
    LET comps == Split(path, PathSeps(os))
    IN  Walk(IF os = "nt" THEN Normalize(comps, <<>>) ELSE comps, <<>>)

InUploads(loc) == loc.dir = <<UPLOAD_FOLDER>>

-----------------------------------------------------------------------------
(* werkzeug.utils.secure_filename, called at src/api.py 138.               *)

WindowsDeviceFiles ==
    { <<"C","O","N">>, <<"P","R","N">>, <<"A","U","X">>, <<"N","U","L">>,
      <<"C","O","M","1">>, <<"C","O","M","2">>, <<"C","O","M","3">>,
      <<"C","O","M","4">>, <<"L","P","T","1">>, <<"L","P","T","2">>,
      <<"L","P","T","3">> }

FilenameChars == Range(Lowercase) \cup Range(Uppercase) \cup Digits \cup {"_", ".", "-"}

\* "_".join(s.split())
JoinWords(s) ==
    LET t == strip(s)
        kept == Pick([i \in 1..Len(t) |-> i],
                     LAMBDA i : ~(IsSpace(t[i]) /\ i > 1 /\ IsSpace(t[i-1])))
    IN  [k \in 1..Len(kept) |-> IF IsSpace(t[kept[k]]) THEN "_" ELSE t[kept[k]]]

secure_filename(os, filename) ==
    LET spaced == [i \in 1..Len(filename) |->
                      IF filename[i] \in PathSeps(os) THEN SP ELSE filename[i]]
        joined == JoinWords(spaced)
        ascii == Pick(joined, LAMBDA i : joined[i] \in FilenameChars)
        name == StripChars(ascii, {".", "_"})
        stem == [i \in 1..Len(Split(name, {"."})[1]) |->
                    UpperChar(Split(name, {"."})[1][i])]
    IN  IF os = "nt" /\ name # <<>> /\ stem \in WindowsDeviceFiles
        THEN <<"_">> \o name
        ELSE name

-----------------------------------------------------------------------------
(* Program data.                                                           *)

\* LANGUAGE_VOICE_MAP, src/api.py 30-41
LANGUAGE_VOICE_MAP ==
       (<<"H","i","n","d","i">> :> "hi-IN-SwaraNeural")
    @@ (<<"T","a","m","i","l">> :> "ta-IN-PallaviNeural")
    @@ (<<"M","a","r","a","t","h","i">> :> "mr-IN-AarohiNeural")
    @@ (<<"G","u","j","a","r","a","t","i">> :> "gu-IN-DhwaniNeural")
    @@ (<<"P","u","n","j","a","b","i">> :> "pa-IN-GaganNeural")
    @@ (<<"B","e","n","g","a","l","i">> :> "bn-IN-TanishaaNeural")
    @@ (<<"T","e","l","u","g","u">> :> "te-IN-ShrutiNeural")
    @@ (<<"K","a","n","n","a","d","a">> :> "kn-IN-SapnaNeural")
    @@ (<<"M","a","l","a","y","a","l","a","m">> :> "ml-IN-SobhanaNeural")
    @@ (<<"E","n","g","l","i","s","h">> :> "en-IN-NeerjaNeural")

\* the TTS input limit, src/api.py 93-94
TTS_LIMIT == 5000
ELLIPSIS == <<".", ".", ".">>

OUTPUT_TRANSLATED ==
    <<"o","u","t","p","u","t","_","t","r","a","n","s","l","a","t","e","d","_">>
OUTPUT_AUDIO == <<"o","u","t","p","u","t","_","a","u","d","i","o","_">>
TXT == <<".","t","x","t">>
MP3 == <<".","m","p","3">>

\* f"output_translated_{lang.lower()}.txt", src/api.py 77
TextFilename(lang) == OUTPUT_TRANSLATED \o lower(lang) \o TXT
\* f"output_audio_{lang.lower()}.mp3", src/api.py 97
AudioFilename(lang) == OUTPUT_AUDIO \o lower(lang) \o MP3

-----------------------------------------------------------------------------
(* The environment: the requests clients send, the documents they upload,  *)
(* and what the two external services answer.                              *)

Requests == {"r1", "r2"}

PDF == "application/pdf"
PLAIN == "text/plain"

\* an uploaded document: whether fitz can open it, and its pages' text
PdfText == [readable |-> TRUE, pages |-> << <<"H","i">>, <<SP,"a",NL>> >>]
PdfBlank == [readable |-> TRUE, pages |-> << <<SP>>, <<NL>> >>]
PdfCorrupt == [readable |-> FALSE, pages |-> <<>>]

Uploads ==
    { [content_type |-> PDF, doc |-> PdfText],
      [content_type |-> PDF, doc |-> PdfBlank],
      [content_type |-> PDF, doc |-> PdfCorrupt],
      [content_type |-> PLAIN, doc |-> PdfText] }

DocPdf == <<"d","o","c",".","p","d","f">>
HindiTxt == TextFilename(<<"h","i","n","d","i">>)
DotDotDocPdf == <<".",".","/">> \o DocPdf

TargetLangs ==
    { <<"H","i","n","d","i">>,
      <<SP,"h","i","n","d","i">>,
      <<"K","l","i","n","g","o","n">>,
      <<SP>>,
      <<"/",".",".","/",".",".","/","x">> }  \* /../../x

\* the length of the longest answer of the translation service, beyond TTS_LIMIT
MaxOver == 1
LongText(n) == [i \in 1..n |-> IF i <= TTS_LIMIT THEN "a" ELSE "z"]
\* response.text of the translation service
RawResponses ==
    { <<"a">>,
      <<SP,"b",NL,NL,NL,"c",TAB,TAB,SP>> }
LongResponses ==
    { <<"a">> } \cup {LongText(TTS_LIMIT + k) : k \in 0..MaxOver}

NoRequest ==
    [has_file |-> FALSE, has_lang |-> FALSE, filename |-> <<>>,
     content_type |-> PLAIN, doc |-> PdfCorrupt, target_lang |-> <<>>]

Full(f, u, l) ==
    [has_file |-> TRUE, has_lang |-> TRUE, filename |-> f,
     content_type |-> u.content_type, doc |-> u.doc, target_lang |-> l]

\* the POST /translate requests of the model: a part missing; a file part
\* whose name is empty or is emptied by secure_filename, in every language;
\* ../doc.pdf with every upload in every language; an upload named as the
\* Hindi text artifact, with every upload, for Hindi
Inputs ==
    { [NoRequest EXCEPT !.has_file = TRUE,
                        !.filename = DocPdf, !.content_type = PDF, !.doc = PdfText],
      [NoRequest EXCEPT !.has_lang = TRUE, !.target_lang = <<"H","i","n","d","i">>],
      NoRequest }
    \cup
    { Full(f, [content_type |-> PDF, doc |-> PdfText], l) :
         f \in {<<>>, DOTDOT}, l \in TargetLangs }
    \cup
    { Full(DotDotDocPdf, u, l) : u \in Uploads, l \in TargetLangs }
    \cup
    { Full(HindiTxt, u, <<"H","i","n","d","i">>) : u \in Uploads }

NoLoc == OSError
Pending == [pending |-> TRUE]

-----------------------------------------------------------------------------
(* The file system.                                                        *)

Upload(doc) == [kind |-> "upload", doc |-> doc]
Text(t) == [kind |-> "text", text |-> t]
Torn(t) == [kind |-> "torn", text |-> t]
Audio(voice, t) == [kind |-> "audio", voice |-> voice, text |-> t]

\* open(path, "w") / open(path, "wb") followed by a complete write
WriteFile(fs, loc, content) ==
    [l \in DOMAIN fs \cup {loc} |-> IF l = loc THEN content ELSE fs[l]]

\* f.write(text) and close on a descriptor opened at offset 0: the bytes
\* written replace the head of whatever the file holds by then.
Overlay(cur, text) ==
    IF cur.kind = "text"
    THEN {Text(text \o SubSeq(cur.text, Len(text) + 1, Len(cur.text)))}
    ELSE {Text(text), Torn(text)}

-----------------------------------------------------------------------------
(* Text extraction, src/api.py 44-69.                                      *)

RECURSIVE Concat(_)
Concat(pages) == IF pages = <<>> THEN <<>> ELSE Head(pages) \o Concat(Tail(pages))

\* extract_text_from_pdf on what the file holds: fitz.open raises on a file
\* it cannot read; a file that is no longer the upload (another request
\* wrote the same name) is read as text or refused, as the library decides.
extract_text_from_pdf(content) ==
    IF content.kind = "upload"
    THEN IF content.doc.readable
         THEN {[raised |-> FALSE, text |-> strip(Concat(content.doc.pages))]}
         ELSE {[raised |-> TRUE, text |-> <<>>]}
    ELSE {[raised |-> TRUE, text |-> <<>>]}
         \cup (IF content.kind = "text" /\ content.text # <<>>
               THEN {[raised |-> FALSE, text |-> strip(content.text)]} ELSE {})

\* extract_text_from_file
extract_text_from_file(content, file_type) ==
    IF file_type = PDF
    THEN extract_text_from_pdf(content)
    ELSE {[raised |-> FALSE, text |-> <<>>]}

-----------------------------------------------------------------------------
(* generate_audio, src/api.py 83-107: the pure part.                       *)

\* a mutant: the text is cut without the marker
tts_input_cut_only(text) ==
    IF Len(text) > TTS_LIMIT THEN SubSeq(text, 1, TTS_LIMIT) ELSE text

\* lines 93-94
tts_input(text) ==
    IF Len(text) > TTS_LIMIT THEN SubSeq(text, 1, TTS_LIMIT) \o ELLIPSIS ELSE text

\* lines 84, 88
voice_lang(lang) == title(strip(lang))
HasVoice(lang) == voice_lang(lang) \in DOMAIN LANGUAGE_VOICE_MAP

-----------------------------------------------------------------------------
(* The handler of POST /translate, src/api.py 125-175, one action per      *)
(* step that touches the file system or a service.                         *)

ServerInit ==
    /\ platform \in {"posix", "nt"}
    /\ files = <<>>
    /\ pc = [r \in Requests |-> "idle"]
    /\ req = [r \in Requests |-> NoRequest]
    /\ target_lang = [r \in Requests |-> <<>>]
    /\ file_path = [r \in Requests |-> <<>>]
    /\ extracted = [r \in Requests |-> <<>>]
    /\ translated = [r \in Requests |-> <<>>]
    /\ fd = [r \in Requests |-> NoLoc]
    /\ output_path = [r \in Requests |-> <<>>]
    /\ audio = [r \in Requests |-> <<>>]
    /\ status = [r \in Requests |-> 0]
    /\ body = [r \in Requests |-> Pending]
    /\ wrote = [r \in Requests |-> {}]
    /\ events = [r \in Requests |-> {}]
    /\ tts_text = [r \in Requests |-> <<>>]
    /\ text_log = <<>>

Init == cpc = "off" /\ cx = <<>> /\ cy = <<>> /\ cz = <<>> /\ ServerInit

\* return jsonify(...), code
Reply(r, code, json) ==
    /\ status' = [status EXCEPT ![r] = code]
    /\ body' = [body EXCEPT ![r] = json]
    /\ pc' = [pc EXCEPT ![r] = "done"]

Error(msg) == [error |-> msg]

\* a mutant: the request is refused only when both parts are missing
MissingParts_both(q) == ~q.has_file /\ ~q.has_lang

\* line 127
MissingParts(q) == ~q.has_file \/ ~q.has_lang

\* a client's request q arrives; lines 127-134
Validate(r) ==
    /\ pc[r] = "idle"
    /\ \E q \in Inputs :
        /\ req' = [req EXCEPT ![r] = q]
        /\ IF MissingParts(q)
           THEN /\ Reply(r, 400, Error("Missing file or target_lang"))
                /\ UNCHANGED target_lang
           ELSE /\ target_lang' = [target_lang EXCEPT ![r] = strip(q.target_lang)]
                /\ IF q.filename = <<>>
                   THEN Reply(r, 400, Error("No file selected"))
                   ELSE /\ pc' = [pc EXCEPT ![r] = "save_upload"]
                        /\ UNCHANGED <<status, body>>
    /\ UNCHANGED <<cvars, platform, files, file_path, extracted,
                   translated, fd, output_path, audio,
                   wrote, events, tts_text, text_log>>

\* lines 138-140; an exception of file.save is caught at line 174
SaveUpload(r) ==
    /\ pc[r] = "save_upload"
    /\ LET filename == secure_filename(platform, req[r].filename)
           path == path_join(platform, UPLOAD_FOLDER, filename)
           loc == Resolve(platform, path)
       IN  /\ file_path' = [file_path EXCEPT ![r] = path]
           /\ IF loc = OSError
              THEN /\ Reply(r, 500, Error("OSError"))
                   /\ UNCHANGED <<files, wrote>>
              ELSE /\ files' = WriteFile(files, loc, Upload(req[r].doc))
                   /\ wrote' = [wrote EXCEPT ![r] = @ \cup {loc}]
                   /\ pc' = [pc EXCEPT ![r] = "extract"]
                   /\ UNCHANGED <<status, body>>
    /\ UNCHANGED <<cvars, platform, req, target_lang, extracted,
                   translated, fd, output_path, audio,
                   events, tts_text, text_log>>

\* lines 143-145
Extract(r) ==
    /\ pc[r] = "extract"
    /\ \E got \in extract_text_from_file(files[Resolve(platform, file_path[r])],
                                         req[r].content_type) :
          IF got.raised
          THEN /\ Reply(r, 500, Error("fitz"))              \* line 174
               /\ events' = [events EXCEPT ![r] = @ \cup {"extract_raised"}]
               /\ UNCHANGED extracted
          ELSE /\ extracted' = [extracted EXCEPT ![r] = got.text]
               /\ IF got.text = <<>>
                  THEN /\ Reply(r, 400, Error("No text found in the uploaded file"))
                       /\ events' = [events EXCEPT ![r] = @ \cup {"extract_empty"}]
                  ELSE /\ pc' = [pc EXCEPT ![r] = "translate"]
                       /\ UNCHANGED <<status, body, events>>
    /\ UNCHANGED <<cvars, platform, files, req, target_lang, file_path,
                   translated, fd, output_path, audio,
                   wrote, tts_text, text_log>>

\* lines 148-150: the service answers, or the call raises
TranslateWith(r, answers) ==
    /\ pc[r] = "translate"
    /\ \/ /\ Reply(r, 500, Error("genai"))                  \* line 174
          /\ events' = [events EXCEPT ![r] = @ \cup {"genai", "genai_raised"}]
          /\ UNCHANGED translated
       \/ \E raw \in answers :
             /\ events' = [events EXCEPT ![r] = @ \cup {"genai"}]
             /\ translated' = [translated EXCEPT ![r] = clean_output(raw)]
             /\ pc' = [pc EXCEPT ![r] = "open_text"]
             /\ UNCHANGED <<status, body>>
    /\ UNCHANGED <<cvars, platform, files, req, target_lang, file_path, extracted,
                   fd, output_path, audio, wrote, tts_text, text_log>>

Translate(r) == TranslateWith(r, RawResponses)

\* lines 77-78
save_path(os, lang) == path_join(os, UPLOAD_FOLDER, TextFilename(lang))

\* save_to_file, line 79: open(path, "w") creates or truncates the file
OpenText(r) ==
    /\ pc[r] = "open_text"
    /\ LET loc == Resolve(platform, save_path(platform, target_lang[r]))
       IN  IF loc = OSError
           THEN /\ Reply(r, 500, Error("OSError"))
                /\ UNCHANGED <<files, fd, wrote>>
           ELSE /\ files' = WriteFile(files, loc, Text(<<>>))
                /\ fd' = [fd EXCEPT ![r] = loc]
                /\ wrote' = [wrote EXCEPT ![r] = @ \cup {loc}]
                /\ pc' = [pc EXCEPT ![r] = "write_text"]
                /\ UNCHANGED <<status, body>>
    /\ UNCHANGED <<cvars, platform, req, target_lang, file_path, extracted,
                   translated, output_path, audio, events, tts_text, text_log>>

\* save_to_file, lines 80-81: the text is written and the path returned (line 153)
WriteText(r) ==
    /\ pc[r] = "write_text"
    /\ \E content \in Overlay(files[fd[r]], translated[r]) :
          files' = WriteFile(files, fd[r], content)
    /\ text_log' = Append(text_log, [by |-> r, loc |-> fd[r]])
    /\ output_path' = [output_path EXCEPT ![r] = save_path(platform, target_lang[r])]
    /\ fd' = [fd EXCEPT ![r] = NoLoc]
    /\ pc' = [pc EXCEPT ![r] = "audio"]
    /\ UNCHANGED <<cvars, platform, req, target_lang, file_path, extracted,
                   translated, audio, status, body, wrote, events, tts_text>>

\* a mutant: the exception of generate_audio reaches the handler of line 174
AudioFailed_fatal(r, ev) ==
    /\ Reply(r, 500, Error("tts"))
    /\ events' = [ev EXCEPT ![r] = @ \cup {"tts_failed"}]
    /\ UNCHANGED audio

\* lines 159-162: the exception of generate_audio is logged and dropped
AudioFailed(r, ev) ==
    /\ audio' = [audio EXCEPT ![r] = <<>>]
    /\ events' = [ev EXCEPT ![r] = @ \cup {"tts_failed"}]
    /\ pc' = [pc EXCEPT ![r] = "respond"]
    /\ UNCHANGED <<status, body>>

\* line 157 with generate_audio, lines 83-107
GenerateAudio(r) ==
    /\ pc[r] = "audio"
    /\ IF ~HasVoice(target_lang[r])
       THEN /\ AudioFailed(r, events)                             \* ValueError, line 90
            /\ UNCHANGED <<files, wrote, tts_text>>
       ELSE LET lang == voice_lang(target_lang[r])
                text == tts_input(translated[r])
                path == path_join(platform, UPLOAD_FOLDER, AudioFilename(lang))
                loc == Resolve(platform, path)
                called == [events EXCEPT ![r] = @ \cup {"tts"}]
            IN  /\ tts_text' = [tts_text EXCEPT ![r] = text]
                /\ \/ /\ files' = WriteFile(files, loc,
                                            Audio(LANGUAGE_VOICE_MAP[lang], text))
                      /\ wrote' = [wrote EXCEPT ![r] = @ \cup {loc}]
                      /\ audio' = [audio EXCEPT ![r] = basename(platform, path)]
                      /\ events' = called
                      /\ pc' = [pc EXCEPT ![r] = "respond"]
                      /\ UNCHANGED <<status, body>>
                   \/ /\ AudioFailed(r, called)               \* no connection
                      /\ UNCHANGED <<files, wrote>>
                   \/ /\ AudioFailed(r, called)               \* the stream breaks
                      /\ files' = WriteFile(files, loc,
                                            Audio(LANGUAGE_VOICE_MAP[lang], <<>>))
                      /\ wrote' = [wrote EXCEPT ![r] = @ \cup {loc}]
    /\ UNCHANGED <<cvars, platform, req, target_lang, file_path, extracted,
                   translated, fd, output_path, text_log>>

\* lines 164-172
Respond(r) ==
    /\ pc[r] = "respond"
    /\ LET response_data == [translation |-> translated[r],
                             output_file |-> basename(platform, output_path[r])]
       IN  Reply(r, 200,
                 IF audio[r] # <<>>
                 THEN [translation |-> response_data.translation,
                       output_file |-> response_data.output_file,
                       audio_file |-> audio[r]]
                 ELSE response_data)
    /\ UNCHANGED <<cvars, platform, files, req, target_lang, file_path, extracted,
                   translated, fd, output_path, audio,
                   wrote, events, tts_text, text_log>>

Next ==
    \E r \in Requests :
        \/ Validate(r)
        \/ SaveUpload(r)
        \/ Extract(r)
        \/ Translate(r)
        \/ OpenText(r)
        \/ WriteText(r)
        \/ GenerateAudio(r)
        \/ Respond(r)

Spec == Init /\ [][Next]_vars

\* one request, and a translation service that gives long answers
NextLong ==
    \/ Validate("r1")
    \/ SaveUpload("r1")
    \/ Extract("r1")
    \/ TranslateWith("r1", LongResponses)
    \/ OpenText("r1")
    \/ WriteText("r1")
    \/ GenerateAudio("r1")
    \/ Respond("r1")

SpecLong == Init /\ [][NextLong]_vars

\* the harness of clean_output
CleanInit == cpc = "in" /\ cx \in Strings /\ cy = <<>> /\ cz = <<>> /\ ServerInit

CleanOnce ==
    /\ cpc = "in"
    /\ cy' = clean_output(cx)
    /\ cpc' = "once"
    /\ UNCHANGED <<cx, cz, svars>>

CleanTwice ==
    /\ cpc = "once"
    /\ cz' = clean_output(cy)
    /\ cpc' = "twice"
    /\ UNCHANGED <<cx, cy, svars>>

CleanNext == CleanOnce \/ CleanTwice
SpecClean == CleanInit /\ [][CleanNext]_vars

-----------------------------------------------------------------------------
(* What the claims speak of.                                               *)

Done(r) == pc[r] = "done"
Arrived(r) == pc[r] # "idle"

\* the file save_to_file writes for the request's language
TextLoc(r) == Resolve(platform, save_path(platform, target_lang[r]))
\* the file generate_audio writes for the request's language
AudioLoc(r) ==
    Resolve(platform,
            path_join(platform, UPLOAD_FOLDER, AudioFilename(voice_lang(target_lang[r]))))

ErrorBody(r) == DOMAIN body[r] = {"error"}

-----------------------------------------------------------------------------
(* C1.  A request without the file part or without the target_lang field   *)
(* is answered 400 with an error body, and that is all that happens: the   *)
(* request wrote no file and called no service.                            *)
C1_MissingPartRejected ==
    \A r \in Requests :
        (Arrived(r) /\ (~req[r].has_file \/ ~req[r].has_lang)) =>
            /\ Done(r)
            /\ status[r] = 400
            /\ ErrorBody(r)
            /\ wrote[r] = {}
            /\ events[r] = {}

C1_Witness ==
    \E r \in Requests :
        /\ Done(r) /\ status[r] = 400
        /\ req[r].has_file /\ ~req[r].has_lang
        /\ \E o \in Requests \ {r} : wrote[o] # {}

(* C2.  A request whose target_lang is empty after trimming, or whose file *)
(* part has an empty filename, is answered 400 at validation, before any   *)
(* file is written and any service called.                                 *)
C2_EmptyFieldRejected ==
    \A r \in Requests :
        (/\ Arrived(r) /\ req[r].has_file /\ req[r].has_lang
         /\ (strip(req[r].target_lang) = <<>> \/ req[r].filename = <<>>)) =>
            /\ Done(r)
            /\ status[r] = 400
            /\ ErrorBody(r)
            /\ wrote[r] = {}
            /\ events[r] = {}

(* C3.  When generate_audio fails (no voice for the language, or the       *)
(* speech service fails) the request still ends 200, its body has          *)
(* translation and output_file and no audio_file, and it has written the   *)
(* text artifact.                                                          *)
C3_AudioFailureNotFatal ==
    \A r \in Requests :
        ("tts_failed" \in events[r]) =>
            /\ pc[r] \in {"respond", "done"}
            /\ TextLoc(r) \in wrote[r]
            /\ TextLoc(r) \in DOMAIN files
            /\ Done(r) =>
                /\ status[r] = 200
                /\ DOMAIN body[r] = {"translation", "output_file"}
                /\ body[r].translation = translated[r]

C3_Witness ==
    /\ \E r \in Requests :
          Done(r) /\ "tts_failed" \in events[r] /\ ~HasVoice(target_lang[r])
    /\ \E r \in Requests :
          Done(r) /\ "tts_failed" \in events[r] /\ "tts" \in events[r]

(* C4.  Every extraction failure, an empty text or a document that cannot  *)
(* be opened, is answered 400 with an error body, and the translation      *)
(* service is not called.                                                  *)
C4_ExtractionFailureIs400 ==
    \A r \in Requests :
        (Done(r) /\ events[r] \cap {"extract_empty", "extract_raised"} # {}) =>
            /\ status[r] = 400
            /\ ErrorBody(r)
            /\ "genai" \notin events[r]

(* C5.  When the translation call raises, the request is answered 500 with *)
(* an error body, never calls the speech service, and has written neither  *)
(* the text artifact nor the audio artifact of its language.               *)
C5_TranslationFailureLeavesArtifacts ==
    \A r \in Requests :
        ("genai_raised" \in events[r]) =>
            /\ Done(r)
            /\ status[r] = 500
            /\ ErrorBody(r)
            /\ "tts" \notin events[r]
            /\ TextLoc(r) \notin wrote[r]
            /\ AudioLoc(r) \notin wrote[r]

-----------------------------------------------------------------------------
(* The shape of a cleaned string, said without the substitutions: the      *)
(* characters that are not whitespace, and the whitespace between them.    *)

\* the positions of s that hold no whitespace
Marks(s) == SelectSeq([i \in 1..Len(s) |-> i], LAMBDA i : ~IsSpace(s[i]))
\* the whitespace between the k-th and the next such position
Gap(s, k) == SubSeq(s, Marks(s)[k] + 1, Marks(s)[k + 1] - 1)

\* the length of the run of one kind (newlines, or blanks) that starts g
LeadingRun(g) ==
    CHOOSE n \in 1..Len(g) :
        /\ \A i \in 1..n : (g[i] = NL) = (g[1] = NL)
        /\ n = Len(g) \/ (g[n + 1] = NL) # (g[1] = NL)

\* a stretch of whitespace, run by run: two or more newlines become two,
\* one newline stays, spaces and tabs become one space
RECURSIVE Collapsed(_)
Collapsed(g) ==
    IF g = <<>> THEN <<>>
    ELSE LET n == LeadingRun(g)
         IN  (IF g[1] # NL THEN <<SP>> ELSE IF n >= 2 THEN <<NL, NL>> ELSE <<NL>>)
             \o Collapsed(SubSeq(g, n + 1, Len(g)))

(* C6.  clean_output is idempotent: cleaning a cleaned string changes      *)
(* nothing.                                                                *)
C6_CleanIdempotent == (cpc = "twice") => (cz = cy)

C6_Witness ==
    /\ cpc = "twice"
    /\ cx = <<SP, "a", TAB, SP, NL, "a">>
    /\ cy = <<"a", SP, NL, "a">>

(* C7.  clean_output keeps the characters that are not whitespace, in      *)
(* order, turns every run of two or more newlines between them into two    *)
(* newlines and every run of spaces and tabs into one space, and leaves no *)
(* whitespace at the ends; so its result has no three newlines in a row,   *)
(* no two blanks in a row and no tab.                                      *)
C7_CleanCollapsesRuns ==
    (cpc # "in") =>
        /\ Len(Marks(cy)) = Len(Marks(cx))
        /\ \A k \in 1..Len(Marks(cx)) : cy[Marks(cy)[k]] = cx[Marks(cx)[k]]
        /\ \A k \in 1..(Len(Marks(cx)) - 1) : Gap(cy, k) = Collapsed(Gap(cx, k))
        /\ cy # <<>> => ~IsSpace(cy[1]) /\ ~IsSpace(cy[Len(cy)])
        /\ \A i \in 1..Len(cy) : cy[i] # TAB
        /\ \A i \in 1..(Len(cy) - 1) : ~(IsBlank(cy[i]) /\ IsBlank(cy[i + 1]))
        /\ \A i \in 1..(Len(cy) - 2) : ~(cy[i] = NL /\ cy[i + 1] = NL /\ cy[i + 2] = NL)

C7_Witness ==
    /\ cpc = "once"
    /\ cx = <<"a", NL, NL, NL, TAB, "a">>
    /\ cy = <<"a", NL, NL, SP, "a">>

(* C8.  The text handed to the speech service is the translation itself    *)
(* when it has at most 5000 characters, and its first 5000 characters      *)
(* followed by "..." when it has more; the translation in the response and *)
(* in the text artifact is the whole translation.                          *)
C8_SpeechInputTruncated ==
    \A r \in Requests :
        ("tts" \in events[r]) =>
            /\ Len(translated[r]) <= 5000 => tts_text[r] = translated[r]
            /\ Len(translated[r]) > 5000 =>
                  /\ Len(tts_text[r]) = 5003
                  /\ SubSeq(tts_text[r], 1, 5000) = SubSeq(translated[r], 1, 5000)
                  /\ SubSeq(tts_text[r], 5001, 5003) = <<".", ".", ".">>
            /\ files[TextLoc(r)] = Text(translated[r])
            /\ (Done(r) /\ status[r] = 200) => body[r].translation = translated[r]

C8_Witness ==
    \E r \in Requests :
        /\ Done(r) /\ status[r] = 200
        /\ "tts" \in events[r]
        /\ Len(translated[r]) > 5000
        /\ "audio_file" \in DOMAIN body[r]

(* C9.  Two requests for the same target language write the same text      *)
(* artifact, and once both have answered 200 the file holds the            *)
(* translation of the one that wrote last.                                 *)
C9_LastWriterWins ==
    \A r1, r2 \in Requests :
        (/\ r1 # r2
         /\ Done(r1) /\ status[r1] = 200
         /\ Done(r2) /\ status[r2] = 200
         /\ target_lang[r1] # <<>>
         /\ lower(target_lang[r1]) = lower(target_lang[r2])) =>
            /\ TextLoc(r1) = TextLoc(r2)
            /\ body[r1].output_file = body[r2].output_file
            /\ files[TextLoc(r1)] = Text(translated[text_log[Len(text_log)].by])

(* C10.  Every file a request creates or overwrites lies directly in the   *)
(* uploads directory, and the output_file of a 200 response is the name of *)
(* a file the request wrote there.                                         *)
C10_WritesStayInUploads ==
    \A r \in Requests :
        /\ \A loc \in wrote[r] : InUploads(loc)
        /\ (Done(r) /\ status[r] = 200) =>
              [dir |-> <<UPLOAD_FOLDER>>, name |-> body[r].output_file] \in wrote[r]

=============================================================================
